---------------------------- MODULE Spec2Model ----------------------------
(***************************************************************************)
(* Story-Teller-MVP: the request handlers of the long-running Express     *)
(* server (src/unnamed/part_001, the current backend; src/backend/index.js *)
(* the older one) and of the per-route serverless functions                *)
(* (src/api/generate.js, src/api/generate-voice.js, src/unnamed/part_003  *)
(* = /api/extract-and-process, src/unnamed/part_004 = /api/process-text). *)
(*                                                                         *)
(* A JavaScript string is a sequence of pieces whose concatenation is the *)
(* string: text that comes from a client or from an upstream service is   *)
(* a sequence of one-character pieces, a string literal of the source is  *)
(* one piece.  A byte buffer is a sequence of numbers in 0..255.          *)
(***************************************************************************)
EXTENDS Integers, Sequences, FiniteSets, TLC

-----------------------------------------------------------------------------
(* Characters and the classes the regular expressions of sanitizeInput use *)

LowerSeq == <<"a","b","c","d","e","f","g","h","i","j","k","l","m",
              "n","o","p","q","r","s","t","u","v","w","x","y","z">>
UpperSeq == <<"A","B","C","D","E","F","G","H","I","J","K","L","M",
              "N","O","P","Q","R","S","T","U","V","W","X","Y","Z">>
DigitSeq == <<"0","1","2","3","4","5","6","7","8","9">>

Range(s) == {s[i] : i \in DOMAIN s}

\* /i of the two patterns: a letter matches in either case
ToLower(c) ==
    IF \E i \in DOMAIN UpperSeq : UpperSeq[i] = c
    THEN LowerSeq[CHOOSE i \in DOMAIN UpperSeq : UpperSeq[i] = c]
    ELSE c

\* \w of /on\w+\s*=/
WordChars == Range(LowerSeq) \cup Range(UpperSeq) \cup Range(DigitSeq) \cup {"_"}

\* \s, and what String.prototype.trim removes (the ASCII members)
WhiteSpace == {" ", "\t", "\n", "\r", "\f"}

\* [\r\n]
LineBreaks == {"\r", "\n"}

\* U+0060 GRAVE ACCENT, which a TLA+ string cannot hold: the one piece of the
\* model that is a character and is written with more than one
GraveAccent == "U+0060"

\* the class [<>"'U+0060] of the first replace
DangerousChars == {"<", ">", "\"", "'", GraveAccent}

JavascriptScheme == <<"j","a","v","a","s","c","r","i","p","t",":">>

\* .substring(0, 2000)
MaxLength == 2000

-----------------------------------------------------------------------------
(* sanitizeInput, one operator per call of its chain.  The operators walk  *)
(* a string by its indices, so that they can be evaluated on a text        *)
(* longer than MaxLength.                                                  *)

Drop(s, n) == SubSeq(s, n + 1, Len(s))

Indices(s) == [i \in 1..Len(s) |-> i]

\* the characters of s at the indices kept, in their order
CharsAt(s, kept) == [j \in 1..Len(kept) |-> s[kept[j]]]

\* the replace without its g flag: the first character of the class goes
RemoveFirstChar(s, cs) ==
    LET found == {i \in 1..Len(s) : s[i] \in cs}
        first == CHOOSE i \in found : \A j \in found : i <= j
    IN  IF found = {} THEN s
        ELSE SubSeq(s, 1, first - 1) \o SubSeq(s, first + 1, Len(s))

\* .replace(/[...]/g, '') for a character class cs
RemoveChars(s, cs) == SelectSeq(s, LAMBDA c : c \notin cs)

\* does pattern p match s at index i, letters compared without case
MatchesAt(s, i, p) ==
    /\ i >= 1 /\ i + Len(p) - 1 <= Len(s)
    /\ \A k \in DOMAIN p : ToLower(s[i + k - 1]) = p[k]

\* .replace(/javascript:/gi, ''): one left-to-right pass.  No proper suffix of
\* the pattern is a prefix of it, so two occurrences never overlap and the
\* pass removes every occurrence in s.
RemoveScheme(s) ==
    LET n == Len(JavascriptScheme)
        Covered(i) == \E k \in (i - n + 1)..i : MatchesAt(s, k, JavascriptScheme)
    IN  CharsAt(s, SelectSeq(Indices(s), LAMBDA i : ~Covered(i)))

\* how many characters of cs follow index i of s without a break (a greedy
\* + or *)
RunLength(s, i, cs) ==
    CHOOSE n \in 0..(Len(s) - i) :
        /\ \A k \in 1..n : s[i + k] \in cs
        /\ i + n = Len(s) \/ s[i + n + 1] \notin cs

\* length of the match of /on\w+\s*=/i at index i of s, 0 when there is none.
\* "=" is neither \w nor \s, so no shorter \w+ or \s* can match where the
\* greedy ones fail.
HandlerMatch(s, i) ==
    IF i + 3 > Len(s) \/ ToLower(s[i]) # "o" \/ ToLower(s[i + 1]) # "n" THEN 0
    ELSE LET w  == RunLength(s, i + 1, WordChars)
             ws == RunLength(s, i + 1 + w, WhiteSpace)
             eq == i + 2 + w + ws
         IN  IF w >= 1 /\ eq <= Len(s) /\ s[eq] = "=" THEN 3 + w + ws ELSE 0

\* .replace(/on\w+\s*=/gi, ''): one left-to-right pass.  A match that starts
\* inside another one starts in its \w+ and ends at the same "=", so the pass
\* removes just the characters that some match covers.
RemoveHandlers(s) ==
    LET match == [i \in 1..Len(s) |-> HandlerMatch(s, i)]
        starts == {i \in 1..Len(s) : match[i] > 0}
        Covered(i) == \E k \in starts : k <= i /\ i < k + match[k]
    IN  CharsAt(s, SelectSeq(Indices(s), LAMBDA i : ~Covered(i)))

\* .replace(/[\r\n]/g, ' ')
ReplaceLineBreaks(s) == [i \in DOMAIN s |-> IF s[i] \in LineBreaks THEN " " ELSE s[i]]

\* no replace of the runs of whitespace
CollapseNone(s) == s

\* .replace(/\s+/g, ' '): the first character of every run of whitespace
\* becomes a space, the rest of the run goes
CollapseWhiteSpace(s) ==
    LET First(i) == ~(s[i] \in WhiteSpace /\ i > 1 /\ s[i - 1] \in WhiteSpace)
        firsts == CharsAt(s, SelectSeq(Indices(s), First))
    IN  [j \in DOMAIN firsts |-> IF firsts[j] \in WhiteSpace THEN " " ELSE firsts[j]]

Reverse(s) == [i \in 1..Len(s) |-> s[Len(s) + 1 - i]]

TrimStart(s) == Drop(s, RunLength(s, 0, WhiteSpace))

TrimEnd(s) == SubSeq(s, 1, Len(s) - RunLength(Reverse(s), 0, WhiteSpace))

\* String.prototype.trim
Trim(s) == TrimEnd(TrimStart(s))

\* no truncation at all
SubstringNone(s, n) == s

\* String.prototype.substring(0, n)
Substring0(s, n) == IF Len(s) > n THEN SubSeq(s, 1, n) ELSE s

\* the replaces and the trim of sanitizeInput, before its substring
Cleaned(s) ==
    Trim(CollapseWhiteSpace(ReplaceLineBreaks(
        RemoveHandlers(RemoveScheme(RemoveChars(s, DangerousChars))))))

(* A JSON value of a request body: t is "absent" (the key is missing),    *)
(* "null", "number" (any value that is not a string), or "string" with    *)
(* its characters in s.                                                    *)
JAbsent == [t |-> "absent", s |-> <<>>]
JNull   == [t |-> "null",   s |-> <<>>]
JNumber == [t |-> "number", s |-> <<>>]
JString(s) == [t |-> "string", s |-> s]

\* JavaScript truthiness of a body value (the number of the model is not 0)
Truthy(v) == \/ v.t = "number"
             \/ v.t = "string" /\ v.s # <<>>

\* sanitizeInput without its first test: a value that is no string has no
\* replace method
sanitizeInputUnguarded(input) ==
    IF input.t # "string" THEN <<"TypeError: input.replace is not a function">>
    ELSE Substring0(Cleaned(input.s), MaxLength)

\* sanitizeInput(input) of a JavaScript value
sanitizeInput(input) ==
    IF ~Truthy(input) \/ input.t # "string" THEN <<>>
    ELSE Substring0(Cleaned(input.s), MaxLength)

-----------------------------------------------------------------------------
(* Buffer.concat and Buffer.prototype.toString("base64")                   *)

RECURSIVE BufferConcat(_)
BufferConcat(chunks) ==
    IF chunks = <<>> THEN <<>> ELSE Head(chunks) \o BufferConcat(Tail(chunks))

Base64Alphabet == UpperSeq \o LowerSeq \o DigitSeq \o <<"+", "/">>

Sextet(n) == Base64Alphabet[(n % 64) + 1]

RECURSIVE Base64(_)
Base64(bytes) ==
    IF bytes = <<>> THEN <<>>
    ELSE IF Len(bytes) = 1 THEN
        LET n == bytes[1] * 65536
        IN  <<Sextet(n \div 262144), Sextet(n \div 4096), "=", "=">>
    ELSE IF Len(bytes) = 2 THEN
        LET n == bytes[1] * 65536 + bytes[2] * 256
        IN  <<Sextet(n \div 262144), Sextet(n \div 4096), Sextet(n \div 64), "=">>
    ELSE
        LET n == bytes[1] * 65536 + bytes[2] * 256 + bytes[3]
        IN  <<Sextet(n \div 262144), Sextet(n \div 4096), Sextet(n \div 64), Sextet(n)>>
            \o Base64(Drop(bytes, 3))

-----------------------------------------------------------------------------
(* Bounds of the model                                                     *)

\* data events one audio stream emits at most
MaxChunks == 2

\* requests one behaviour receives, one after the other
MaxRequests == 1

\* pieces an argument of the sanitizer is put together from
MaxPieces == 3

\* characters that follow the padding of a long argument of the sanitizer
MaxTail == 2

-----------------------------------------------------------------------------
(* Configuration, requests, and what the upstream services may answer      *)

\* max of the rate limiter: requests per window and client address
LimitMax == 100

\* the three programs and the routes each of them serves
Routes == {"/api/generate", "/api/extract-and-process",
           "/api/process-text", "/api/generate-voice"}

Endpoints ==
    {[shape |-> "server", route |-> r] : r \in Routes}
    \cup {[shape |-> "serverless", route |-> r] : r \in Routes}
    \cup {[shape |-> "backend", route |-> "/api/generate"]}

Methods == {"POST", "OPTIONS", "GET"}

\* the Origin header of a request; NoOrigin when it has none.  ConfiguredOrigin
\* is the value FRONTEND_URL holds when it is set.
NoOrigin == ""
ConfiguredOrigin == "https://app.example"
Origins == {NoOrigin, "http://localhost:5173", ConfiguredOrigin}

\* process.env as the handlers read it ("" for a variable that is not set)
Environments ==
    [NODE_ENV : {"development", "production"}, FRONTEND_URL : {"", ConfiguredOrigin}]

\* the text of a request body
TextValues ==
    {JAbsent, JNull, JNumber, JString(<<>>), JString(<<" ">>), JString(<<"<">>),
     JString(<<" ", "a", "<">>)}

\* the image of a request body: a data URL is its literal prefix, its
\* subtype, the literal ";base64," and the characters of the payload
ImageValues ==
    {JAbsent, JNumber, JString(<<>>), JString(<<" ">>),
     JString(<<"data:image/", "jpeg", ";base64,", "Q", "Q">>)}

\* what response.text() of the generation service may return
GeminiTexts == {<<>>, <<" ">>, <<"<">>, <<"o", "k">>}

\* the message of an error an upstream service throws
UpstreamDetail == <<"429 quota exceeded for key AIza-secret">>

\* the message of an error the audio stream emits
StreamDetail == <<"socket hang up">>

\* the chunks a data event may carry
ChunkValues == {<<>>, <<77>>, <<97, 110>>}

-----------------------------------------------------------------------------
(* The state                                                               *)

VARIABLES
    env,      \* process.env, fixed when the process starts
    hits,     \* the rate limiter's count for the client address, this window
    served,   \* requests received so far
    reqs,     \* the requests in flight: a function from slots to their state
    san,      \* sanitizeInput called on its own: its argument and its result
    ui        \* the frontend: App's state hooks and its fetches in flight

vars == <<env, hits, served, reqs, san, ui>>

NoResponse ==
    [headersSent |-> FALSE, statusCode |-> 0, type |-> "none", body |-> <<>>,
     headers |-> <<>>, sends |-> 0]

\* lateError notes an error event that came after the response had gone out
NoStream == [open |-> FALSE, ended |-> FALSE, errored |-> FALSE, closed |-> FALSE,
             emitted |-> <<>>, lateError |-> FALSE]

\* no call of the sanitizer on its own
NoSanitizer == [input |-> JAbsent, output |-> <<>>, returned |-> FALSE,
                again |-> <<>>, twice |-> FALSE]

\* useState(null) of audioData
NoAudio == [t |-> "null", audioBase64 |-> JAbsent, audioMime |-> JAbsent]

\* no fetch of the frontend has settled yet
NoSettled == [handler |-> "none", status |-> 0, alert |-> <<>>]

\* App when it has mounted: the initial values of its state hooks, no fetch
\* in flight.  settled notes the handler whose fetch settled last, the status
\* of the response (0 when the fetch was rejected) and the alert it raised.
AppMounted ==
    [imageDataUrl |-> JNull, inputText |-> <<>>, processedStory |-> JNull,
     extractedText |-> JNull, audioData |-> NoAudio,
     loadingExtract |-> FALSE, loadingVoice |-> FALSE,
     fetches |-> <<>>, settled |-> NoSettled]

IdleRequest ==
    [pc |-> "idle", ep |-> [shape |-> "server", route |-> "/api/generate"],
     method |-> "POST", origin |-> NoOrigin, acrh |-> FALSE,
     body |-> [text |-> JAbsent, image |-> JAbsent],
     res |-> NoResponse, calls |-> <<>>,
     extractedText |-> <<>>, story |-> <<>>,
     chunks |-> <<>>, stream |-> NoStream, promise |-> "none", reason |-> <<>>,
     caught |-> <<>>]

-----------------------------------------------------------------------------
(* The response object: res.setHeader, res.status(n).json(body),           *)
(* res.status(n).end(), res.status(n).send(text)                           *)

SetHeader(q, name, value) == [q EXCEPT !.res.headers = (name :> value) @@ @]

\* a response is written: status, body, and the handler is over
Write(q, status, type, body) ==
    [q EXCEPT !.res.headersSent = TRUE, !.res.statusCode = status,
              !.res.type = type, !.res.body = body, !.res.sends = @ + 1,
              !.pc = "done"]

Json(q, status, body) == Write(q, status, "json", body)

EndEmpty(q, status) == Write(q, status, "empty", <<>>)

ErrorBody(message) == "error" :> message

\* an Error object: its name, its message, and the stack a client may be shown
Error(message) == [name |-> "Error", message |-> message]
TypeError(message) == [name |-> "TypeError", message |-> message]
Stack(err) == <<err.name, ": ">> \o err.message \o <<"\n    at handler (file.js:1:1)">>

\* err.message || fallback
MessageOr(err, fallback) == IF err.message = <<>> THEN fallback ELSE err.message

-----------------------------------------------------------------------------
(* Cross-origin policy, rate limiting and routing in front of the handlers *)

\* allowedOrigins: [FRONTEND_URL, two localhost origins].filter(Boolean)
allowedOrigins(e) ==
    ({e.FRONTEND_URL} \ {""}) \cup {"http://localhost:5173", "http://localhost:3000"}

\* corsOptions.origin: callback(null, true), or callback(new Error(...))
corsOptionsOrigin(e, origin) == origin = NoOrigin \/ origin \in allowedOrigins(e)

\* the catch-all error handler of the Express applications
ExpressErrorHandler(q, err) ==
    IF q.res.headersSent THEN [q EXCEPT !.pc = "done", !.caught = err.message]
    ELSE LET q1 == [q EXCEPT !.caught = err.message]
         IN  IF q.ep.shape = "server"
             THEN Json(q1, 500, ErrorBody(<<"Internal server error">>))
             ELSE Json(q1, 500, ErrorBody(MessageOr(err, <<"Internal server error">>)))

\* what the cors package does with an OPTIONS request it lets through: the
\* allow-methods, the request's own Access-Control-Request-Headers echoed,
\* optionsSuccessStatus and no body
CorsPreflight(q, status) ==
    LET q1 == SetHeader(q, "Access-Control-Allow-Methods", "GET,HEAD,PUT,PATCH,POST,DELETE")
        q2 == IF q.acrh THEN SetHeader(q1, "Access-Control-Allow-Headers", "content-type")
              ELSE q1
    IN  EndEmpty(q2, status)

\* app.use(cors(corsOptions)) of the server: pc stays "idle" when the request goes on
CorsServer(q, e) ==
    IF ~corsOptionsOrigin(e, q.origin)
    THEN ExpressErrorHandler(q, Error(<<"Not allowed by CORS">>))
    ELSE LET q1 == IF q.origin # NoOrigin
                   THEN SetHeader(q, "Access-Control-Allow-Origin", q.origin) ELSE q
             q2 == SetHeader(q1, "Access-Control-Allow-Credentials", "true")
         IN  IF q.method = "OPTIONS" THEN CorsPreflight(q2, 200) ELSE q2

\* app.use(cors()) of the older backend: any origin, 204 for a preflight
CorsBackend(q) ==
    LET q1 == SetHeader(q, "Access-Control-Allow-Origin", "*")
    IN  IF q.method = "OPTIONS" THEN CorsPreflight(q1, 204) ELSE q1

\* the rate limiter counts the request, then refuses it when the count is over max
LimiterCount(h) == IF h > LimitMax THEN h ELSE h + 1
LimiterRefuses(h) == LimiterCount(h) > LimitMax

\* app.use('/api/', limiter): message is a string, sent as text with status 429
Limiter(q, h) ==
    IF LimiterRefuses(h)
    THEN Write(q, 429, "text",
               "text" :> <<"Too many requests from this IP, please try again later.">>)
    ELSE q

\* a request no app.post route matches falls through to Express's own 404 page
ExpressNotFound(q) ==
    Write(q, 404, "html", "text" :> <<"Cannot ", q.method, " ", q.ep.route>>)

\* the first lines of a serverless handler: the CORS headers, the preflight,
\* the method check
ServerlessPreamble(q, e) ==
    LET open == q.ep.route = "/api/generate"
        q1 == IF open THEN SetHeader(q, "Access-Control-Allow-Origin", "*")
              ELSE IF q.origin # NoOrigin /\ q.origin \in allowedOrigins(e)
                   THEN SetHeader(q, "Access-Control-Allow-Origin", q.origin)
              ELSE q
        q2 == SetHeader(q1, "Access-Control-Allow-Credentials", "true")
        q3 == SetHeader(q2, "Access-Control-Allow-Methods",
                        IF open THEN "GET,OPTIONS,PATCH,DELETE,POST,PUT"
                        ELSE "POST, OPTIONS")
        q4 == SetHeader(q3, "Access-Control-Allow-Headers",
                        IF open THEN "X-CSRF-Token, X-Requested-With, Accept, Accept-Version, Content-Length, Content-MD5, Content-Type, Date, X-Api-Version"
                        ELSE "Content-Type")
    IN  IF q.method = "OPTIONS" THEN EndEmpty(q4, 200)
        ELSE IF q.method # "POST"
             THEN Json(q4, 405, ErrorBody(<<"Method not allowed">>))
        ELSE q4

-----------------------------------------------------------------------------
(* The POST handlers.  Each operator is the code the handler runs without  *)
(* giving up control: from its start, or from the point an await resumes,  *)
(* to the next await or to its end.                                        *)

\* an external call, as the handler issues it
GeminiCall(op, model, text, image) ==
    [service |-> "gemini", op |-> op, model |-> model, text |-> text,
     image |-> image, state |-> "pending", result |-> <<>>]

TtsCall(text) ==
    [service |-> "elevenlabs", op |-> "textToSpeech.convert",
     model |-> "eleven_multilingual_v2", text |-> text,
     image |-> <<>>, state |-> "pending", result |-> <<>>]

Call(q, c, pc) == [q EXCEPT !.calls = Append(@, c), !.pc = pc]

\* the last call of the request returns or throws
Settle(q, state, result) ==
    [q EXCEPT !.calls[Len(q.calls)].state = state,
              !.calls[Len(q.calls)].result = result]

\* does the handler pass the text through sanitizeInput before it forwards it
Sanitizes(ep) ==
    \/ ep.shape = "server"
    \/ ep.shape = "serverless" /\ ep.route # "/api/generate"

\* the catch (err) block around the whole handler
OuterCatch(q, err, e) ==
    LET q1 == [q EXCEPT !.caught = err.message, !.pc = "done"]
    IN  IF q.ep.route = "/api/generate"
        THEN IF q.ep.shape = "serverless" \/ ~q.res.headersSent
             THEN Json(q1, 500,
                       IF e.NODE_ENV = "development"
                       THEN ErrorBody(MessageOr(err, <<"Internal server error">>))
                            @@ ("details" :> Stack(err))
                       ELSE ErrorBody(MessageOr(err, <<"Internal server error">>)))
             ELSE q1
        ELSE IF ~q.res.headersSent
             THEN Json(q1, 500,
                       ErrorBody(<<"An error occurred processing your request. Please try again.">>))
             ELSE q1

\* text?.trim() || "" : the trimmed text, "" for a missing or null one;
\* a value that is no string has no trim method
HasTrim(v) == v.t \in {"absent", "null", "string"}
TrimmedOrEmpty(v) == IF v.t = "string" THEN Trim(v.s) ELSE <<>>

\* the 400 message of a missing text, per route
TextRequired(route) ==
    IF route = "/api/generate"
    THEN <<"Text is required. Please provide a story idea or topic.">>
    ELSE IF route = "/api/process-text"
    THEN <<"Text is required. Please provide text to process.">>
    ELSE <<"Story text is required to generate voiceover.">>

\* the 400 message of a text the sanitizer emptied, per route
TextInvalid(route) ==
    IF route = "/api/generate"
    THEN <<"Invalid input. Please provide valid text.">>
    ELSE IF route = "/api/process-text"
    THEN <<"Invalid input. Please provide valid text to process.">>
    ELSE <<"Invalid story text. Please provide valid text to generate voiceover.">>

\* base64ToGeminiFormat: the data URL prefix stripped, the mime type read from it
base64ToGeminiFormat(s) ==
    IF Len(s) >= 3 /\ s[1] = "data:image/" /\ s[2] \notin {"", " "} /\ s[3] = ";base64,"
    THEN [data |-> Drop(s, 3), mimeType |-> <<"image/", s[2]>>]
    ELSE [data |-> s, mimeType |-> <<"image/png">>]

\* the model the extraction step asks for
ExtractionModel(ep) ==
    IF ep.shape = "serverless" THEN "gemini-1.5-pro" ELSE "gemini-2.0-flash"

\* /api/generate and /api/process-text from their start to the generation call
StartTextStory(q, e) ==
    LET text == q.body.text
        input == TrimmedOrEmpty(text)
        clean == sanitizeInput(JString(input))
    IN  IF ~HasTrim(text)
        THEN OuterCatch(q, TypeError(<<"text?.trim is not a function">>), e)
        ELSE IF input = <<>>
        THEN Json(q, 400, ErrorBody(TextRequired(q.ep.route)))
        ELSE IF Sanitizes(q.ep)
        THEN IF clean = <<>>
             THEN Json(q, 400, ErrorBody(TextInvalid(q.ep.route)))
             ELSE Call(q, GeminiCall("story", "gemini-2.0-flash", clean, <<>>), "awaitStory")
        ELSE Call(q, GeminiCall("story", "gemini-2.0-flash", input, <<>>), "awaitStory")

\* StartVoice with the return of its second 400 forgotten: the handler goes on
StartVoiceNoReturn(q, e) ==
    LET text == q.body.text
        storyText == TrimmedOrEmpty(text)
        clean == sanitizeInput(JString(storyText))
    IN  IF ~HasTrim(text)
        THEN OuterCatch(q, TypeError(<<"text?.trim is not a function">>), e)
        ELSE IF storyText = <<>>
        THEN Json(q, 400, ErrorBody(TextRequired(q.ep.route)))
        ELSE IF clean = <<>>
        THEN Call(Json(q, 400, ErrorBody(TextInvalid(q.ep.route))), TtsCall(clean), "awaitTts")
        ELSE Call(q, TtsCall(clean), "awaitTts")

\* StartVoice with the trimmed text forwarded as it came
StartVoiceRaw(q, e) ==
    LET text == q.body.text
        storyText == TrimmedOrEmpty(text)
    IN  IF ~HasTrim(text)
        THEN OuterCatch(q, TypeError(<<"text?.trim is not a function">>), e)
        ELSE IF storyText = <<>>
        THEN Json(q, 400, ErrorBody(TextRequired(q.ep.route)))
        ELSE Call(q, TtsCall(storyText), "awaitTts")

\* /api/generate-voice from its start to the synthesis call
StartVoice(q, e) ==
    LET text == q.body.text
        storyText == TrimmedOrEmpty(text)
        clean == sanitizeInput(JString(storyText))
    IN  IF ~HasTrim(text)
        THEN OuterCatch(q, TypeError(<<"text?.trim is not a function">>), e)
        ELSE IF storyText = <<>>
        THEN Json(q, 400, ErrorBody(TextRequired(q.ep.route)))
        ELSE IF clean = <<>>
        THEN Json(q, 400, ErrorBody(TextInvalid(q.ep.route)))
        ELSE Call(q, TtsCall(clean), "awaitTts")

\* /api/extract-and-process from its start to the extraction call
StartExtract(q, e) ==
    LET image == q.body.image
    IN  IF ~Truthy(image)
        THEN Json(q, 400, ErrorBody(<<"Image is required. Please upload an image.">>))
        ELSE IF image.t # "string"
        THEN OuterCatch(q, Error(<<"Failed to extract text from image: ",
                                   "base64String.replace is not a function">>), e)
        ELSE Call(q, GeminiCall("extract", ExtractionModel(q.ep), <<>>,
                                base64ToGeminiFormat(image.s)), "awaitExtract")

\* the handler of a route, from its start
StartHandler(q, e) ==
    IF q.ep.route = "/api/extract-and-process" THEN StartExtract(q, e)
    ELSE IF q.ep.route = "/api/generate-voice" THEN StartVoice(q, e)
    ELSE StartTextStory(q, e)

\* AfterExtract with the test of the trimmed length left out
AfterExtractNoTrim(q, t) ==
    LET q1 == [Settle(q, "returned", t) EXCEPT !.extractedText = t]
    IN  IF t = <<>>
        THEN Json(q1, 400, ErrorBody(<<"No text could be extracted from the image. Please try a different image.">>))
        ELSE Call(q1, GeminiCall("story-from-image", "gemini-2.0-flash",
                                 sanitizeInput(JString(t)), <<>>), "awaitStory")

\* /api/extract-and-process when the extraction call has returned text t
AfterExtract(q, t) ==
    LET q1 == [Settle(q, "returned", t) EXCEPT !.extractedText = t]
    IN  IF t = <<>> \/ Trim(t) = <<>>
        THEN Json(q1, 400, ErrorBody(<<"No text could be extracted from the image. Please try a different image.">>))
        ELSE Call(q1, GeminiCall("story-from-image", "gemini-2.0-flash",
                                 sanitizeInput(JString(t)), <<>>), "awaitStory")

\* AfterStory with the story sanitized on its way to the synthesis call
AfterStorySanitized(q, t) ==
    LET q1 == [Settle(q, "returned", t) EXCEPT !.story = t]
    IN  IF q.ep.route = "/api/extract-and-process"
        THEN Json(q1, 200, ("extractedText" :> q1.extractedText) @@ ("processedStory" :> t))
        ELSE IF q.ep.route = "/api/process-text"
        THEN Json(q1, 200, "processedStory" :> t)
        ELSE Call(q1, TtsCall(sanitizeInput(JString(t))), "awaitTts")

\* the story call has returned text t: the two story routes answer, /api/generate
\* goes on to the synthesis call
AfterStory(q, t) ==
    LET q1 == [Settle(q, "returned", t) EXCEPT !.story = t]
    IN  IF q.ep.route = "/api/extract-and-process"
        THEN Json(q1, 200, ("extractedText" :> q1.extractedText) @@ ("processedStory" :> t))
        ELSE IF q.ep.route = "/api/process-text"
        THEN Json(q1, 200, "processedStory" :> t)
        ELSE Call(q1, TtsCall(t), "awaitTts")

\* AfterGeminiThrows with a failed story step answered by the text extracted so far
AfterGeminiThrowsPartial(q, cause, e) ==
    LET q1 == Settle(q, "threw", cause.message)
        prefix == IF q.pc = "awaitExtract" THEN "Failed to extract text from image: "
                  ELSE IF q.ep.route = "/api/generate" THEN "Failed to generate story: "
                  ELSE "Failed to process text: "
    IN  IF q.ep.route = "/api/extract-and-process" /\ q.pc = "awaitStory"
        THEN Json(q1, 200, "extractedText" :> q1.extractedText)
        ELSE OuterCatch(q1, Error(<<prefix>> \o cause.message), e)

\* a call to the generation service has thrown: the inner catch wraps the error
\* and throws it on to the outer catch
AfterGeminiThrows(q, cause, e) ==
    LET q1 == Settle(q, "threw", cause.message)
        prefix == IF q.pc = "awaitExtract" THEN "Failed to extract text from image: "
                  ELSE IF q.ep.route = "/api/generate" THEN "Failed to generate story: "
                  ELSE "Failed to process text: "
    IN  OuterCatch(q1, Error(<<prefix>> \o cause.message), e)


\* the synthesis call has returned a stream: the listeners are attached and the
\* handler awaits the promise they settle
AfterTtsStream(q) ==
    [Settle(q, "returned", <<"stream">>) EXCEPT
        !.pc = "awaitStream", !.promise = "pending", !.chunks = <<>>,
        !.stream = [NoStream EXCEPT !.open = TRUE]]

\* the synthesis call has returned nothing: if (!audioStream) throw
AfterTtsNothing(q, e) ==
    OuterCatch(Settle(q, "returned", <<>>),
               Error(<<"No valid audio stream received from ElevenLabs">>), e)

\* the synthesis call has thrown
AfterTtsThrows(q, cause, e) ==
    OuterCatch(Settle(q, "threw", cause.message),
               Error(<<"Failed to generate audio: ">> \o cause.message), e)

\* a data listener that puts each chunk in front of the ones before it
OnDataUnshift(q, chunk) ==
    [q EXCEPT !.chunks = <<chunk>> \o @, !.stream.emitted = Append(@, chunk)]

\* nodeStream.on('data'): chunks.push(Buffer.from(chunk))
OnData(q, chunk) ==
    [q EXCEPT !.chunks = Append(@, chunk), !.stream.emitted = Append(@, chunk)]

\* nodeStream.on('end'): resolve(), which settles a pending promise only
OnEnd(q) ==
    [q EXCEPT !.stream.ended = TRUE,
              !.promise = IF @ = "pending" THEN "resolved" ELSE @]

\* an error listener that settles the promise as the end listener does
OnErrorResolves(q, err) ==
    [q EXCEPT !.stream.errored = TRUE,
              !.stream.lateError = q.res.headersSent,
              !.promise = IF @ = "pending" THEN "resolved" ELSE @]

\* nodeStream.on('error'): reject(err), which settles a pending promise only
OnError(q, err) ==
    [q EXCEPT !.stream.errored = TRUE,
              !.stream.lateError = q.res.headersSent,
              !.promise = IF @ = "pending" THEN "rejected" ELSE @,
              !.reason = IF q.promise = "pending" THEN err.message ELSE @]

\* the stream closes: the handler listens to no 'close' event
OnClose(q) == [q EXCEPT !.stream.closed = TRUE, !.stream.open = FALSE]

\* a success body that carries the story on every route
AudioBodyWithText(q) ==
    ("text" :> q.story) @@ ("audioBase64" :> Base64(BufferConcat(q.chunks)))
    @@ ("audioMime" :> <<"audio/mpeg">>)

\* a success body whose audio is built from one chunks array that every request
\* in flight pushes to
AudioBodyShared(q) ==
    LET all == BufferConcat([r \in DOMAIN reqs |-> BufferConcat(reqs[r].chunks)])
        audio == ("audioBase64" :> Base64(all)) @@ ("audioMime" :> <<"audio/mpeg">>)
    IN  IF q.ep.route = "/api/generate" THEN ("text" :> q.story) @@ audio ELSE audio

\* the body of a success response that carries audio
AudioBody(q) ==
    LET audio == ("audioBase64" :> Base64(BufferConcat(q.chunks)))
                 @@ ("audioMime" :> <<"audio/mpeg">>)
    IN  IF q.ep.route = "/api/generate" THEN ("text" :> q.story) @@ audio ELSE audio

\* the await of the drain promise resumes: the rest of the handler
AfterDrain(q, e) ==
    IF q.promise = "rejected"
    THEN OuterCatch(q, Error(<<"Failed to read audio stream: ">> \o q.reason), e)
    ELSE IF Len(q.chunks) = 0
    THEN OuterCatch(q, Error(<<"No audio data received from ElevenLabs">>), e)
    ELSE Json(q, 200, AudioBody(q))

-----------------------------------------------------------------------------
(* A request from its arrival to its handler's first await: the Express   *)
(* middleware chain and the route, or the serverless function's first     *)
(* lines                                                                   *)

Arrival(ep, method, origin, acrh, body) ==
    [IdleRequest EXCEPT !.ep = ep, !.method = method, !.origin = origin,
                        !.acrh = acrh, !.body = body]

\* the long-running server: cors, limiter, express.json, app.post, handler
DispatchServer(q, e, h) ==
    LET q1 == CorsServer(q, e)
        q2 == Limiter(q1, h)
    IN  IF q1.res.headersSent THEN q1
        ELSE IF q2.res.headersSent THEN q2
        ELSE IF q.method # "POST" THEN ExpressNotFound(q2)
        ELSE StartHandler(q2, e)

\* the older backend: cors, express.json, app.post, handler
DispatchBackend(q, e) ==
    LET q1 == CorsBackend(q)
    IN  IF q1.res.headersSent THEN q1
        ELSE IF q.method # "POST" THEN ExpressNotFound(q1)
        ELSE StartHandler(q1, e)

\* a serverless function
DispatchServerless(q, e) ==
    LET q1 == ServerlessPreamble(q, e)
    IN  IF q1.res.headersSent THEN q1 ELSE StartHandler(q1, e)

Dispatch(q, e, h) ==
    IF q.ep.shape = "server" THEN DispatchServer(q, e, h)
    ELSE IF q.ep.shape = "backend" THEN DispatchBackend(q, e)
    ELSE DispatchServerless(q, e)

\* the limiter's count after the request: it counts what the cors middleware
\* lets through to it
HitsAfter(q, e, h) ==
    IF q.ep.shape = "server" /\ ~CorsServer(q, e).res.headersSent
    THEN LimiterCount(h) ELSE h

-----------------------------------------------------------------------------
(* Actions                                                                 *)

\* the bodies a request may carry: the field its route reads, any value
Bodies(ep, method) ==
    IF method # "POST"
    THEN {[text |-> JAbsent, image |-> JAbsent],
          [text |-> JString(<<" ", "a", "<">>), image |-> JAbsent]}
    ELSE IF ep.route = "/api/extract-and-process"
    THEN {[text |-> JAbsent, image |-> i] : i \in ImageValues}
    ELSE {[text |-> t, image |-> JAbsent] : t \in TextValues}

\* a request arrives on a free slot and runs to its first await or its response
Receive(r) ==
    /\ reqs[r].pc = "idle"
    /\ served < MaxRequests
    /\ \E ep \in Endpoints, method \in Methods, origin \in Origins, acrh \in BOOLEAN :
         /\ acrh => method = "OPTIONS"
         /\ \E body \in Bodies(ep, method) :
              LET q == Arrival(ep, method, origin, acrh, body)
              IN  /\ reqs' = [reqs EXCEPT ![r] = Dispatch(q, env, hits)]
                  /\ hits' = HitsAfter(q, env, hits)
    /\ served' = served + 1
    /\ UNCHANGED <<env, san, ui>>

\* the response has gone out and nothing of the request is kept
Complete(r) ==
    /\ reqs[r].pc = "done"
    /\ reqs' = [reqs EXCEPT ![r] = IdleRequest]
    /\ UNCHANGED <<env, hits, served, san, ui>>

\* windowMs has passed: the limiter forgets its counts
WindowReset ==
    /\ hits > 0
    /\ hits' = 0
    /\ UNCHANGED <<env, served, reqs, san, ui>>

\* a call to the generation service returns text t
GeminiReturns(r) ==
    /\ reqs[r].pc \in {"awaitExtract", "awaitStory"}
    /\ \E t \in GeminiTexts :
         reqs' = [reqs EXCEPT ![r] = IF reqs[r].pc = "awaitExtract"
                                     THEN AfterExtract(reqs[r], t)
                                     ELSE AfterStory(reqs[r], t)]
    /\ UNCHANGED <<env, hits, served, san, ui>>

\* a call to the generation service throws
GeminiThrows(r) ==
    /\ reqs[r].pc \in {"awaitExtract", "awaitStory"}
    /\ reqs' = [reqs EXCEPT ![r] = AfterGeminiThrows(reqs[r], Error(UpstreamDetail), env)]
    /\ UNCHANGED <<env, hits, served, san, ui>>

\* the synthesis call returns a stream
TtsReturnsStream(r) ==
    /\ reqs[r].pc = "awaitTts"
    /\ reqs' = [reqs EXCEPT ![r] = AfterTtsStream(reqs[r])]
    /\ UNCHANGED <<env, hits, served, san, ui>>

\* the synthesis call returns no stream
TtsReturnsNothing(r) ==
    /\ reqs[r].pc = "awaitTts"
    /\ reqs' = [reqs EXCEPT ![r] = AfterTtsNothing(reqs[r], env)]
    /\ UNCHANGED <<env, hits, served, san, ui>>

\* the synthesis call throws
TtsThrows(r) ==
    /\ reqs[r].pc = "awaitTts"
    /\ reqs' = [reqs EXCEPT ![r] = AfterTtsThrows(reqs[r], Error(UpstreamDetail), env)]
    /\ UNCHANGED <<env, hits, served, san, ui>>

\* the stream emits data: only before it has ended, failed or closed
StreamData(r) ==
    /\ reqs[r].stream.open
    /\ ~reqs[r].stream.ended /\ ~reqs[r].stream.errored
    /\ Len(reqs[r].stream.emitted) < MaxChunks
    /\ \E c \in ChunkValues : reqs' = [reqs EXCEPT ![r] = OnData(reqs[r], c)]
    /\ UNCHANGED <<env, hits, served, san, ui>>

\* the stream emits end
StreamEnd(r) ==
    /\ reqs[r].stream.open /\ ~reqs[r].stream.ended
    /\ reqs' = [reqs EXCEPT ![r] = OnEnd(reqs[r])]
    /\ UNCHANGED <<env, hits, served, san, ui>>

\* the stream emits error
StreamError(r) ==
    /\ reqs[r].stream.open /\ ~reqs[r].stream.errored
    /\ reqs' = [reqs EXCEPT ![r] = OnError(reqs[r], Error(StreamDetail))]
    /\ UNCHANGED <<env, hits, served, san, ui>>

\* the stream closes, whether or not it has emitted end or error
StreamClose(r) ==
    /\ reqs[r].stream.open
    /\ reqs' = [reqs EXCEPT ![r] = OnClose(reqs[r])]
    /\ UNCHANGED <<env, hits, served, san, ui>>

\* the handler resumes after the drain promise has settled
ResumeAfterDrain(r) ==
    /\ reqs[r].pc = "awaitStream"
    /\ reqs[r].promise \in {"resolved", "rejected"}
    /\ reqs' = [reqs EXCEPT ![r] = AfterDrain(reqs[r], env)]
    /\ UNCHANGED <<env, hits, served, san, ui>>

Next ==
    \/ WindowReset
    \/ \E r \in DOMAIN reqs : Receive(r)
    \/ \E r \in DOMAIN reqs : Complete(r)
    \/ \E r \in DOMAIN reqs : GeminiReturns(r)
    \/ \E r \in DOMAIN reqs : GeminiThrows(r)
    \/ \E r \in DOMAIN reqs : TtsReturnsStream(r)
    \/ \E r \in DOMAIN reqs : TtsReturnsNothing(r)
    \/ \E r \in DOMAIN reqs : TtsThrows(r)
    \/ \E r \in DOMAIN reqs : StreamData(r)
    \/ \E r \in DOMAIN reqs : StreamEnd(r)
    \/ \E r \in DOMAIN reqs : StreamError(r)
    \/ \E r \in DOMAIN reqs : StreamClose(r)
    \/ \E r \in DOMAIN reqs : ResumeAfterDrain(r)

\* one request at a time, any configuration; the limiter's window is new, or
\* the client has used it up
Init ==
    /\ env \in Environments
    /\ hits \in {0, LimitMax}
    /\ served = 0
    /\ reqs = [r \in {1} |-> IdleRequest]
    /\ san = NoSanitizer
    /\ ui = AppMounted

Spec == Init /\ [][Next]_vars

-----------------------------------------------------------------------------
(* Two requests in flight at once.  Each slot receives one POST, and the   *)
(* awaits and the stream callbacks of the two requests interleave in any   *)
(* order.  The inputs are fewer than those of Spec, and a stream ends or  *)
(* fails but is not closed early; the bytes of a stream tell which request *)
(* the stream belongs to.                                                  *)

ConcurrentEndpoints == {ep \in Endpoints : ep.shape \in {"server", "serverless"}}

ConcurrentBodies(ep) ==
    IF ep.route = "/api/extract-and-process"
    THEN {[text |-> JAbsent,
           image |-> JString(<<"data:image/", "jpeg", ";base64,", "Q", "Q">>)]}
    ELSE {[text |-> JString(t), image |-> JAbsent] : t \in {<<"a">>, <<"b", "<">>}}

ConcurrentGeminiTexts == {<<"o", "k">>, <<"<">>}

\* the one chunk the stream of the request on slot r emits, as often as it likes
ConcurrentChunk(r) == <<76 + r>>

ReceiveConcurrent(r) ==
    /\ reqs[r].pc = "idle"
    /\ served < Cardinality(DOMAIN reqs)
    /\ \E ep \in ConcurrentEndpoints :
         \E body \in ConcurrentBodies(ep) :
            LET q == Arrival(ep, "POST", NoOrigin, FALSE, body)
            IN  /\ reqs' = [reqs EXCEPT ![r] = Dispatch(q, env, hits)]
                /\ hits' = HitsAfter(q, env, hits)
    /\ served' = served + 1
    /\ UNCHANGED <<env, san, ui>>

GeminiReturnsConcurrent(r) ==
    /\ reqs[r].pc \in {"awaitExtract", "awaitStory"}
    /\ \E t \in ConcurrentGeminiTexts :
         reqs' = [reqs EXCEPT ![r] = IF reqs[r].pc = "awaitExtract"
                                     THEN AfterExtract(reqs[r], t)
                                     ELSE AfterStory(reqs[r], t)]
    /\ UNCHANGED <<env, hits, served, san, ui>>

StreamDataConcurrent(r) ==
    /\ reqs[r].stream.open
    /\ ~reqs[r].stream.ended /\ ~reqs[r].stream.errored
    /\ Len(reqs[r].stream.emitted) < MaxChunks
    /\ reqs' = [reqs EXCEPT ![r] = OnData(reqs[r], ConcurrentChunk(r))]
    /\ UNCHANGED <<env, hits, served, san, ui>>

NextConcurrent ==
    \/ \E r \in DOMAIN reqs : ReceiveConcurrent(r)
    \/ \E r \in DOMAIN reqs : GeminiReturnsConcurrent(r)
    \/ \E r \in DOMAIN reqs : GeminiThrows(r)
    \/ \E r \in DOMAIN reqs : TtsReturnsStream(r)
    \/ \E r \in DOMAIN reqs : TtsReturnsNothing(r)
    \/ \E r \in DOMAIN reqs : TtsThrows(r)
    \/ \E r \in DOMAIN reqs : StreamDataConcurrent(r)
    \/ \E r \in DOMAIN reqs : StreamEnd(r)
    \/ \E r \in DOMAIN reqs : StreamError(r)
    \/ \E r \in DOMAIN reqs : ResumeAfterDrain(r)

InitConcurrent ==
    /\ env \in {e \in Environments : e.FRONTEND_URL = ""}
    /\ hits = 0
    /\ served = 0
    /\ reqs = [r \in {1, 2} |-> IdleRequest]
    /\ san = NoSanitizer
    /\ ui = AppMounted

SpecConcurrent == InitConcurrent /\ [][NextConcurrent]_vars

-----------------------------------------------------------------------------
(* The sanitizer on its own: sanitizeInput is called once, on any of the   *)
(* arguments below.  The short ones are put together from pieces that the  *)
(* replaces of the chain look for; the long ones are a padding of about    *)
(* MaxLength characters and a short tail.                                  *)

SanitizerPieces ==
    {<<"a">>, <<" ">>, <<"\n">>, <<"\t", "\r">>, <<"<">>,
     <<">", "\"", "'", GraveAccent>>, <<"o", "n">>, <<"=">>,
     <<"j", "a", "v", "a">>, <<"s", "c", "r", "i", "p", "t", ":">>,
     <<"J", "A", "V", "A", "s", "c", "r", "i", "p", "t", ":">>}

TailPieces == {<<"a">>, <<" ">>, <<"<">>}

RECURSIVE Concatenations(_, _)
\* the strings made of at most n of the pieces
Concatenations(pieces, n) ==
    IF n = 0 THEN {<<>>}
    ELSE LET shorter == Concatenations(pieces, n - 1)
         IN  shorter \cup {s \o p : s \in shorter, p \in pieces}

Pad(n) == [i \in 1..n |-> "a"]

LongStrings ==
    {Pad(MaxLength - k) \o t : k \in 0..MaxTail,
                                t \in Concatenations(TailPieces, MaxTail)}

SanitizerInputs ==
    {JAbsent, JNull, JNumber}
    \cup {JString(s) : s \in Concatenations(SanitizerPieces, MaxPieces) \cup LongStrings}

\* sanitizeInput(input) returns
Sanitize ==
    /\ ~san.returned
    /\ san' = [san EXCEPT !.output = sanitizeInput(san.input), !.returned = TRUE]
    /\ UNCHANGED <<env, hits, served, reqs, ui>>

\* sanitizeInput is called on the string it has returned
SanitizeAgain ==
    /\ san.returned /\ ~san.twice
    /\ san' = [san EXCEPT !.again = sanitizeInput(JString(san.output)), !.twice = TRUE]
    /\ UNCHANGED <<env, hits, served, reqs, ui>>

NextSanitizer == Sanitize \/ SanitizeAgain

InitSanitizer ==
    /\ env = [NODE_ENV |-> "production", FRONTEND_URL |-> ""]
    /\ hits = 0
    /\ served = 0
    /\ reqs = [r \in {1} |-> IdleRequest]
    /\ san \in {[NoSanitizer EXCEPT !.input = v] : v \in SanitizerInputs}
    /\ ui = AppMounted

SpecSanitizer == InitSanitizer /\ [][NextSanitizer]_vars

-----------------------------------------------------------------------------
(* The frontend: App.jsx.  A handler runs from the click to its fetch in   *)
(* one step, and from the settling of the fetch to the end of its finally  *)
(* in another; React renders between the two, so a button's disabled is    *)
(* read from the state the last step has left.  A response text is a       *)
(* sequence of tokens, each a sequence of pieces: a JSON object is "{",    *)
(* then keys and values in turn, then "}".                                 *)

HighDemand ==
    <<"Service is temporarily unavailable due to high demand. Please wait a moment and try again.">>

ApplicationJson == JString(<<"application/json", "; charset=utf-8">>)
TextHtml        == JString(<<"text/html", "; charset=utf-8">>)

\* contentType.includes(part), for a part that is one piece of the model
Includes(s, part) == \E i \in 1..Len(s) : s[i] = part

\* JSON.stringify of an object given as its keys and values in turn
JsonStringify(pairs) == <<(<<"{">>)>> \o pairs \o <<(<<"}">>)>>

\* JSON.parse(text) does not throw
JsonParses(text) ==
    /\ Len(text) >= 2 /\ Len(text) % 2 = 0
    /\ text[1] = <<"{">> /\ text[Len(text)] = <<"}">>

KeyIndices(text, key) ==
    {i \in 2..(Len(text) - 2) : i % 2 = 0 /\ text[i] = <<key>>}

\* JSON.parse(text)[key]
JsonField(text, key) ==
    IF KeyIndices(text, key) = {} THEN JAbsent
    ELSE JString(text[(CHOOSE i \in KeyIndices(text, key) : TRUE) + 1])

RECURSIVE Flat(_)
\* the text as one string
Flat(text) == IF text = <<>> THEN <<>> ELSE Head(text) \o Flat(Tail(text))

StatusText(status) ==
    CASE status = 200 -> <<"200 OK">>
      [] status = 429 -> <<"429 Too Many Requests">>
      [] OTHER        -> <<"500 Internal Server Error">>

Ok(resp) == resp.status \in 200..299

NoThrow == [threw |-> FALSE, message |-> <<>>]
Throw(message) == [threw |-> TRUE, message |-> message]

\* json?.error || `Server error: ${resp.status} ${resp.statusText}`
ErrorMessage(resp) ==
    IF Truthy(JsonField(resp.text, "error")) THEN JsonField(resp.text, "error").s
    ELSE <<"Server error: ">> \o StatusText(resp.status)

\* what the try of handleImageExtraction and of handleTextProcessing throws
\* on the response (the texts of the model are shorter than 100 characters)
ExtractThrows(resp) ==
    IF resp.failed THEN Throw(<<"Failed to fetch">>)
    ELSE IF resp.text = <<>> THEN Throw(<<"Empty response from server">>)
    ELSE IF Truthy(resp.contentType)
            /\ ~Includes(resp.contentType.s, "application/json")
    THEN Throw(<<"Unexpected content type: ">> \o resp.contentType.s
               \o <<". Response: ">> \o Flat(resp.text))
    ELSE IF ~JsonParses(resp.text)
    THEN Throw(<<"Invalid JSON response: ">> \o Flat(resp.text))
    ELSE IF ~Ok(resp) THEN Throw(ErrorMessage(resp))
    ELSE NoThrow

\* what the try of handleGenerateVoice throws on the response
VoiceThrows(resp) ==
    IF resp.failed THEN Throw(<<"Failed to fetch">>)
    ELSE IF resp.text = <<>> THEN Throw(<<"Empty response from server">>)
    ELSE IF Truthy(resp.contentType)
            /\ ~Includes(resp.contentType.s, "application/json")
    THEN Throw(<<"Unexpected content type: ">> \o resp.contentType.s)
    ELSE IF ~JsonParses(resp.text)
    THEN Throw(<<"Invalid JSON response: ">> \o Flat(resp.text))
    ELSE IF ~Ok(resp)
    THEN IF resp.status = 429
         THEN Throw(IF ErrorMessage(resp) # <<>> THEN ErrorMessage(resp)
                    ELSE HighDemand)
         ELSE Throw(ErrorMessage(resp))
    ELSE NoThrow

\* the catch: alert(`Error: ${err.message || "An unexpected error occurred"}`)
Alert(thrown) ==
    IF ~thrown.threw THEN <<>>
    ELSE <<"Error: ">> \o (IF thrown.message # <<>> THEN thrown.message
                           ELSE <<"An unexpected error occurred">>)

\* the fetches in flight without the i-th
Settled(fetches, i) ==
    SubSeq(fetches, 1, i - 1) \o SubSeq(fetches, i + 1, Len(fetches))

\* the button of line 210
ExtractDisabled(u) ==
    u.loadingExtract \/ (~Truthy(u.imageDataUrl) /\ Trim(u.inputText) = <<>>)

\* the button of line 236, rendered when there is a story
VoiceDisabled(u) == ~Truthy(u.processedStory) \/ u.loadingVoice

\* handleImageExtraction up to its fetch
StartImageExtraction(u) ==
    [u EXCEPT !.loadingExtract = TRUE, !.processedStory = JNull,
              !.extractedText = JNull, !.audioData = NoAudio,
              !.fetches = Append(@, [handler |-> "handleImageExtraction",
                                     route |-> "/api/extract-and-process",
                                     body |-> JsonStringify(<<(<<"image">>), u.imageDataUrl.s>>)])]

\* handleTextProcessing up to its fetch
StartTextProcessing(u) ==
    [u EXCEPT !.loadingExtract = TRUE, !.processedStory = JNull,
              !.extractedText = JNull, !.audioData = NoAudio,
              !.fetches = Append(@, [handler |-> "handleTextProcessing",
                                     route |-> "/api/process-text",
                                     body |-> JsonStringify(<<(<<"text">>), u.inputText>>)])]

\* handleExtractAndProcess up to the first await that waits
handleExtractAndProcess(u) ==
    IF ~Truthy(u.imageDataUrl) /\ Trim(u.inputText) = <<>>
    THEN [u EXCEPT !.settled = [handler |-> "handleExtractAndProcess", status |-> 0,
                                alert |-> <<"Please upload an image or enter text">>]]
    ELSE IF Truthy(u.imageDataUrl) THEN StartImageExtraction(u)
    ELSE StartTextProcessing(u)

\* handleGenerateVoice up to its fetch
handleGenerateVoice(u) ==
    IF ~Truthy(u.processedStory)
    THEN [u EXCEPT !.settled = [handler |-> "handleGenerateVoice", status |-> 0,
                                alert |-> <<"Please process text or image first">>]]
    ELSE [u EXCEPT !.loadingVoice = TRUE, !.audioData = NoAudio,
                   !.fetches = Append(@, [handler |-> "handleGenerateVoice",
                                          route |-> "/api/generate-voice",
                                          body |-> JsonStringify(<<(<<"text">>), u.processedStory.s>>)])]

\* handleImageExtraction from the response to the end of its finally
ImageExtractionSettles(u, i, resp) ==
    LET thrown == ExtractThrows(resp)
        v == IF thrown.threw THEN u
             ELSE [u EXCEPT !.extractedText = JsonField(resp.text, "extractedText"),
                            !.processedStory = JsonField(resp.text, "processedStory")]
    IN  [v EXCEPT !.loadingExtract = FALSE, !.fetches = Settled(@, i),
                  !.settled = [handler |-> "handleImageExtraction",
                               status |-> resp.status, alert |-> Alert(thrown)]]

\* handleTextProcessing from the response to the end of its finally
TextProcessingSettles(u, i, resp) ==
    LET thrown == ExtractThrows(resp)
        v == IF thrown.threw THEN u
             ELSE [u EXCEPT !.processedStory = JsonField(resp.text, "processedStory")]
    IN  [v EXCEPT !.loadingExtract = FALSE, !.fetches = Settled(@, i),
                  !.settled = [handler |-> "handleTextProcessing",
                               status |-> resp.status, alert |-> Alert(thrown)]]

\* handleGenerateVoice with the reset of its flag at the end of the try
GenerateVoiceSettlesNoFinally(u, i, resp) ==
    LET thrown == VoiceThrows(resp)
        v == IF thrown.threw THEN u
             ELSE [u EXCEPT !.loadingVoice = FALSE,
                            !.audioData = [t |-> "object",
                                audioBase64 |-> JsonField(resp.text, "audioBase64"),
                                audioMime |-> JsonField(resp.text, "audioMime")]]
    IN  [v EXCEPT !.fetches = Settled(@, i),
                  !.settled = [handler |-> "handleGenerateVoice",
                               status |-> resp.status, alert |-> Alert(thrown)]]

\* handleGenerateVoice from the response to the end of its finally
GenerateVoiceSettles(u, i, resp) ==
    LET thrown == VoiceThrows(resp)
        v == IF thrown.threw THEN u
             ELSE [u EXCEPT !.audioData = [t |-> "object",
                                audioBase64 |-> JsonField(resp.text, "audioBase64"),
                                audioMime |-> JsonField(resp.text, "audioMime")]]
    IN  [v EXCEPT !.loadingVoice = FALSE, !.fetches = Settled(@, i),
                  !.settled = [handler |-> "handleGenerateVoice",
                               status |-> resp.status, alert |-> Alert(thrown)]]

(* What the frontend is given: the user's image and texts, and the          *)
(* responses a fetch can settle with.                                      *)

DataUrl == <<"data:image/png;base64,", "i", "m", "g">>
TypedTexts == {<<>>, <<" ">>, <<"a", " ", "h", "e", "n">>}
Stories == {<<"Once upon a time">>, <<"Long ago">>}

\* the audio the server synthesizes from a text
AudioOf(text) == <<"audio of: ">> \o text

\* the text of a request body
RequestText(body) == JsonField(body, "text").s

Rejected ==
    [failed |-> TRUE, status |-> 0, contentType |-> JNull, text |-> <<>>]

Response(status, contentType, text) ==
    [failed |-> FALSE, status |-> status, contentType |-> contentType, text |-> text]

\* the bodies of the responses that are not 2xx: none, the limiter's text,
\* an object with an error, an object without one
ErrorTexts ==
    {<<>>,
     <<(<<"Too many requests from this IP, please try again later.">>)>>,
     JsonStringify(<<(<<"error">>), <<"Failed to generate audio: ", "quota">>>>),
     JsonStringify(<<>>)}

ErrorResponses ==
    {Response(status, contentType, text) :
        status \in {429, 500},
        contentType \in {JNull, ApplicationJson, TextHtml},
        text \in ErrorTexts}

\* the responses to a fetch: the 200 of its route, a failure, or no response
Responses(f) ==
    {Rejected} \cup ErrorResponses
    \cup (IF f.handler = "handleGenerateVoice"
          THEN {Response(200, ApplicationJson,
                    JsonStringify(<<(<<"audioBase64">>), AudioOf(RequestText(f.body)),
                                    (<<"audioMime">>), <<"audio/mpeg">>>>))}
          ELSE IF f.handler = "handleTextProcessing"
          THEN {Response(200, ApplicationJson,
                    JsonStringify(<<(<<"processedStory">>), story>>)) : story \in Stories}
          ELSE {Response(200, ApplicationJson,
                    JsonStringify(<<(<<"extractedText">>), <<"a hen">>,
                                    (<<"processedStory">>), story>>)) : story \in Stories})

\* ImageUpload's onChange: the reader has loaded the chosen file
ChooseImage ==
    /\ ui' = [ui EXCEPT !.imageDataUrl = JString(DataUrl)]
    /\ UNCHANGED <<env, hits, served, reqs, san>>

\* the textarea's onChange
TypeText ==
    /\ \E text \in TypedTexts : ui' = [ui EXCEPT !.inputText = text]
    /\ UNCHANGED <<env, hits, served, reqs, san>>

\* a click on the extract button
ClickExtractAndProcess ==
    /\ ~ExtractDisabled(ui)
    /\ ui' = handleExtractAndProcess(ui)
    /\ UNCHANGED <<env, hits, served, reqs, san>>

\* a click on the voice button
ClickGenerateVoice ==
    /\ ~VoiceDisabled(ui)
    /\ ui' = handleGenerateVoice(ui)
    /\ UNCHANGED <<env, hits, served, reqs, san>>

ImageExtractionFetchSettles ==
    /\ \E i \in DOMAIN ui.fetches :
          /\ ui.fetches[i].handler = "handleImageExtraction"
          /\ \E resp \in Responses(ui.fetches[i]) :
                ui' = ImageExtractionSettles(ui, i, resp)
    /\ UNCHANGED <<env, hits, served, reqs, san>>

TextProcessingFetchSettles ==
    /\ \E i \in DOMAIN ui.fetches :
          /\ ui.fetches[i].handler = "handleTextProcessing"
          /\ \E resp \in Responses(ui.fetches[i]) :
                ui' = TextProcessingSettles(ui, i, resp)
    /\ UNCHANGED <<env, hits, served, reqs, san>>

GenerateVoiceFetchSettles ==
    /\ \E i \in DOMAIN ui.fetches :
          /\ ui.fetches[i].handler = "handleGenerateVoice"
          /\ \E resp \in Responses(ui.fetches[i]) :
                ui' = GenerateVoiceSettles(ui, i, resp)
    /\ UNCHANGED <<env, hits, served, reqs, san>>

NextFrontend ==
    \/ ChooseImage
    \/ TypeText
    \/ ClickExtractAndProcess
    \/ ClickGenerateVoice
    \/ ImageExtractionFetchSettles
    \/ TextProcessingFetchSettles
    \/ GenerateVoiceFetchSettles

InitFrontend ==
    /\ env = [NODE_ENV |-> "production", FRONTEND_URL |-> ""]
    /\ hits = 0
    /\ served = 0
    /\ reqs = [r \in {1} |-> IdleRequest]
    /\ san = NoSanitizer
    /\ ui = AppMounted

SpecFrontend == InitFrontend /\ [][NextFrontend]_vars

-----------------------------------------------------------------------------
(* Properties                                                              *)

Slots == DOMAIN reqs
Arrived(r) == reqs[r].pc # "idle"
Done(r) == reqs[r].pc = "done"
Status(r) == reqs[r].res.statusCode
BodyKeys(r) == DOMAIN reqs[r].res.body
Route(r) == reqs[r].ep.route
IsPost(r) == Arrived(r) /\ reqs[r].method = "POST"
SuccessFields == {"text", "extractedText", "processedStory", "audioBase64"}

\* what a request that has no response yet may still see happen
Progress(r) ==
    \/ GeminiReturns(r) \/ GeminiThrows(r)
    \/ TtsReturnsStream(r) \/ TtsReturnsNothing(r) \/ TtsThrows(r)
    \/ StreamData(r) \/ StreamEnd(r) \/ StreamError(r) \/ StreamClose(r)
    \/ ResumeAfterDrain(r)

\* C1: every request that has arrived gets a response: as long as it has none,
\* something that brings the handler forward can still happen (a call returns
\* or throws, the stream emits an event, the handler resumes)
C1_NoRequestLeftUnanswered ==
    \A r \in Slots :
        Arrived(r) /\ ~reqs[r].res.headersSent => ENABLED Progress(r)

\* C2: a request gets at most one response: a status and body are written at
\* most once, whatever happens after them
C2_AtMostOneResponse ==
    \A r \in Slots :
        /\ reqs[r].res.sends <= 1
        /\ reqs[r].res.headersSent <=> reqs[r].res.sends = 1
        /\ Done(r) => reqs[r].res.headersSent

\* a 200 with audio has gone out and the stream has failed after it
C2_Witness ==
    \E r \in Slots :
        /\ Done(r) /\ Status(r) = 200 /\ reqs[r].res.sends = 1
        /\ reqs[r].stream.lateError

\* the required field of a POST is missing or blank
FieldBlank(r) ==
    LET v == IF Route(r) = "/api/extract-and-process"
             THEN reqs[r].body.image ELSE reqs[r].body.text
    IN  \/ v.t \in {"absent", "null"}
        \/ v.t = "string" /\ Trim(v.s) = <<>>

\* the request went through to its handler: neither the origin check nor the
\* rate limiter of the server answered it
ReachedHandler(r) ==
    /\ IsPost(r)
    /\ reqs[r].res.type # "text"
    /\ reqs[r].caught # <<"Not allowed by CORS">>

\* C3: a POST whose required field is missing or blank makes no external call
\* and ends in a 400 whose JSON body has an error key (stated for the requests
\* that reach their handler)
C3_BlankFieldIs400 ==
    \A r \in Slots :
        ReachedHandler(r) /\ FieldBlank(r) =>
            /\ reqs[r].calls = <<>>
            /\ Done(r) /\ Status(r) = 400
            /\ reqs[r].res.type = "json" /\ "error" \in BodyKeys(r)

\* the calls of a request that carry text of the user's: the story calls and,
\* on /api/generate-voice, the synthesis call; and the text each of them is
\* made for (the trimmed text of the body, or the text extracted from the image)
ForwardsUserText(r, i) ==
    \/ reqs[r].calls[i].op \in {"story", "story-from-image"}
    \/ Route(r) = "/api/generate-voice" /\ reqs[r].calls[i].op = "textToSpeech.convert"

UserText(r) ==
    IF Route(r) = "/api/extract-and-process" THEN reqs[r].extractedText
    ELSE TrimmedOrEmpty(reqs[r].body.text)

\* the handler holds the user's text: always on the text routes, once the
\* extraction has returned on /api/extract-and-process
HoldsUserText(r) ==
    /\ ReachedHandler(r)
    /\ IF Route(r) = "/api/extract-and-process"
       THEN Len(reqs[r].calls) >= 1 /\ reqs[r].calls[1].state = "returned"
       ELSE HasTrim(reqs[r].body.text)

\* C4: when the sanitizer's result for the user's text is empty, the request
\* ends in a 400 and no call forwards the text
C4_EmptySanitizedIs400 ==
    \A r \in Slots :
        HoldsUserText(r) /\ sanitizeInput(JString(UserText(r))) = <<>> =>
            /\ \A i \in DOMAIN reqs[r].calls : ~ForwardsUserText(r, i)
            /\ Done(r) /\ Status(r) = 400

\* C5: a stream drained to its end that held no byte never gives a 200
C5_ZeroBytesIsFailure ==
    \A r \in Slots :
        /\ Done(r) /\ reqs[r].promise = "resolved"
        /\ BufferConcat(reqs[r].stream.emitted) = <<>>
        => Status(r) >= 500

\* the extraction call of the request has returned text that is empty or blank
ExtractedBlank(r) ==
    /\ Arrived(r) /\ Route(r) = "/api/extract-and-process"
    /\ Len(reqs[r].calls) >= 1
    /\ reqs[r].calls[1].op = "extract" /\ reqs[r].calls[1].state = "returned"
    /\ Trim(reqs[r].calls[1].result) = <<>>

\* C6: when the extraction returns empty or whitespace-only text, the request
\* is answered 400 and the story call is never made
C6_BlankExtractionIs400 ==
    \A r \in Slots :
        ExtractedBlank(r) =>
            /\ Len(reqs[r].calls) = 1
            /\ Done(r) /\ Status(r) = 400

\* the extraction has returned a single space and the request is answered
C6_Witness ==
    \E r \in Slots :
        /\ ExtractedBlank(r) /\ reqs[r].calls[1].result = <<" ">>
        /\ Status(r) = 400

Pending(r) == {i \in DOMAIN reqs[r].calls : reqs[r].calls[i].state = "pending"}

\* C7: a request makes at most two calls, the second only when the first has
\* returned, never two at once; the synthesis call of /api/generate is made
\* with the story the generation call returned, the story call of
\* /api/extract-and-process after the extraction call
C7_CallsInSequence ==
    \A r \in Slots :
        LET calls == reqs[r].calls
        IN  /\ Len(calls) <= 2
            /\ Cardinality(Pending(r)) <= 1
            /\ Pending(r) \subseteq {Len(calls)}
            /\ Len(calls) = 2 => calls[1].state = "returned"
            /\ Len(calls) = 2 /\ Route(r) = "/api/generate" =>
                   /\ calls[1].op = "story"
                   /\ calls[2].service = "elevenlabs"
                   /\ calls[2].text = calls[1].result
            /\ Len(calls) = 2 /\ Route(r) = "/api/extract-and-process" =>
                   /\ calls[1].op = "extract"
                   /\ calls[2].op = "story-from-image"

\* the synthesis call of /api/generate is in flight, for a story the sanitizer
\* would change
C7_Witness ==
    \E r \in Slots :
        /\ Route(r) = "/api/generate" /\ Len(reqs[r].calls) = 2
        /\ reqs[r].calls[2].state = "pending"
        /\ reqs[r].calls[1].result = <<"<">>

GeminiThrew(r) ==
    {i \in DOMAIN reqs[r].calls :
        reqs[r].calls[i].service = "gemini" /\ reqs[r].calls[i].state = "threw"}

\* C8: when a call to the generation service throws, it is the request's last
\* call, and the answer is a failure with none of the success fields
C8_GenerationFailureIsFinal ==
    \A r \in Slots :
        GeminiThrew(r) # {} =>
            /\ GeminiThrew(r) = {Len(reqs[r].calls)}
            /\ Done(r) /\ Status(r) >= 500
            /\ BodyKeys(r) \cap SuccessFields = {}

\* the story call of /api/extract-and-process has thrown after the extraction
\* had returned its text
C8_Witness ==
    \E r \in Slots :
        /\ Route(r) = "/api/extract-and-process"
        /\ GeminiThrew(r) = {2} /\ reqs[r].extractedText = <<"o", "k">>
        /\ Status(r) = 500

\* the request has failed on the server's side: a call threw, the synthesis
\* returned no stream, or the stream failed or came out empty
UpstreamFailed(r) ==
    /\ Done(r)
    /\ \/ \E i \in DOMAIN reqs[r].calls : reqs[r].calls[i].state = "threw"
       \/ reqs[r].promise = "rejected"

\* the pieces of every field of the response body
BodyPieces(r) == UNION {Range(reqs[r].res.body[k]) : k \in BodyKeys(r)}

\* C9: a failure that is no fault of the user's input is answered 500 with a
\* body of the one key error, which holds neither a stack trace nor the
\* message of the upstream error (stated for NODE_ENV = "production")
C9_GenericFailureBody ==
    \A r \in Slots :
        /\ UpstreamFailed(r) => Status(r) = 500
        /\ Arrived(r) /\ Status(r) = 500 /\ env.NODE_ENV = "production" =>
               /\ BodyKeys(r) = {"error"}
               /\ BodyPieces(r) \cap (Range(UpstreamDetail) \cup Range(StreamDetail)) = {}

\* C10: an OPTIONS request is answered with a success status, no body and the
\* allow headers, and no external call is made for it
C10_PreflightSucceeds ==
    \A r \in Slots :
        Arrived(r) /\ reqs[r].method = "OPTIONS" =>
            /\ Done(r) /\ Status(r) \in {200, 204}
            /\ reqs[r].res.type = "empty" /\ BodyKeys(r) = {}
            /\ "Access-Control-Allow-Methods" \in DOMAIN reqs[r].res.headers
            /\ reqs[r].calls = <<>>

\* neither the origin check nor the rate limiter of the server answered the
\* request
PassedMiddleware(r) ==
    /\ Arrived(r)
    /\ reqs[r].res.type # "text"
    /\ reqs[r].caught # <<"Not allowed by CORS">>

\* C11: a request whose method is neither POST nor OPTIONS is answered 405 and
\* no external call is made for it (stated for the requests that neither the
\* origin check nor the rate limiter answers)
C11_WrongMethodIs405 ==
    \A r \in Slots :
        PassedMiddleware(r) /\ reqs[r].method \notin {"POST", "OPTIONS"} =>
            /\ Done(r) /\ Status(r) = 405
            /\ reqs[r].calls = <<>>

\* the response lets a page of the request's origin read it: its
\* Access-Control-Allow-Origin is that origin, or the wildcard
AdmitsOrigin(r) ==
    /\ reqs[r].origin # NoOrigin
    /\ "Access-Control-Allow-Origin" \in DOMAIN reqs[r].res.headers
    /\ reqs[r].res.headers["Access-Control-Allow-Origin"] \in {"*", reqs[r].origin}

\* C12: on every route, a response admits the request's origin only when the
\* origin is on the allow-list (FRONTEND_URL and the two localhost origins)
C12_OnlyListedOriginsAdmitted ==
    \A r \in Slots :
        Arrived(r) /\ AdmitsOrigin(r) => reqs[r].origin \in allowedOrigins(env)

\* the fields section 6 of the specification gives the success body of a route
RouteFields(route) ==
    CASE route = "/api/generate" -> {"text", "audioBase64", "audioMime"}
      [] route = "/api/extract-and-process" -> {"extractedText", "processedStory"}
      [] route = "/api/process-text" -> {"processedStory"}
      [] route = "/api/generate-voice" -> {"audioBase64", "audioMime"}

\* C13: a 200 response to a POST is JSON with exactly the fields of its route,
\* and an audioMime in it is "audio/mpeg"
C13_SuccessShape ==
    \A r \in Slots :
        IsPost(r) /\ Done(r) /\ Status(r) = 200 =>
            /\ reqs[r].res.type = "json"
            /\ BodyKeys(r) = RouteFields(Route(r))
            /\ "audioMime" \in BodyKeys(r) =>
                   reqs[r].res.body["audioMime"] = <<"audio/mpeg">>

\* /api/generate-voice has answered 200 with audio, and so has /api/generate
\* with its story (one request at a time: either of the two)
C13_Witness ==
    \E r \in Slots :
        /\ IsPost(r) /\ Done(r) /\ Status(r) = 200
        /\ Route(r) = "/api/generate-voice"
        /\ reqs[r].res.body["audioBase64"] = <<"T", "Q", "=", "=">>

\* C14: the body of a response is never empty and always JSON (stated for the
\* POST requests: validation failures, rate limiting, rejected origins,
\* internal faults and successes)
C14_BodyIsJson ==
    \A r \in Slots :
        IsPost(r) /\ Done(r) =>
            /\ reqs[r].res.type = "json"
            /\ BodyKeys(r) # {}

\* the text of the user's a request forwards, as the route's handler cleans it
OwnText(r) ==
    IF Sanitizes(reqs[r].ep)
    THEN sanitizeInput(JString(TrimmedOrEmpty(reqs[r].body.text)))
    ELSE TrimmedOrEmpty(reqs[r].body.text)

\* call i of request r is made with arguments that come from the request's own
\* body and from what its own earlier calls returned
OwnArguments(r, i) ==
    LET calls == reqs[r].calls
        c == calls[i]
    IN  CASE c.op = "extract" -> c.image = base64ToGeminiFormat(reqs[r].body.image.s)
          [] c.op = "story" -> c.text = OwnText(r)
          [] c.op = "story-from-image" ->
                 i = 2 /\ c.text = sanitizeInput(JString(calls[1].result))
          [] c.op = "textToSpeech.convert" ->
                 IF Route(r) = "/api/generate"
                 THEN i = 2 /\ c.text = calls[1].result
                 ELSE c.text = OwnText(r)

\* the fields of a 200 body are what the request's own calls returned and the
\* bytes its own stream emitted
OwnResults(r) ==
    LET body == reqs[r].res.body
        calls == reqs[r].calls
    IN  /\ "text" \in DOMAIN body => body["text"] = calls[1].result
        /\ "extractedText" \in DOMAIN body => body["extractedText"] = calls[1].result
        /\ "processedStory" \in DOMAIN body =>
               body["processedStory"] = calls[Len(calls)].result
        /\ "audioBase64" \in DOMAIN body =>
               body["audioBase64"] = Base64(BufferConcat(reqs[r].stream.emitted))

\* C15: with two requests in flight and their steps interleaved in any order,
\* every call of a request is made with that request's own input and results,
\* and every 200 carries that request's own story and audio bytes
C15_NoCrossContamination ==
    \A r \in Slots :
        /\ \A i \in DOMAIN reqs[r].calls : OwnArguments(r, i)
        /\ Done(r) /\ Status(r) = 200 => OwnResults(r)

\* one request has been answered 200 with its audio while the stream of the
\* other, received as well, has emitted bytes and not ended
C15_Witness ==
    \E r, o \in Slots :
        /\ r # o
        /\ Done(r) /\ Status(r) = 200 /\ "audioBase64" \in BodyKeys(r)
        /\ reqs[o].pc = "awaitStream" /\ reqs[o].promise = "pending"
        /\ reqs[o].chunks # <<>>
        /\ BufferConcat(reqs[r].stream.emitted) # BufferConcat(reqs[o].stream.emitted)

\* C16: a 200 that carries audio is sent only when the stream has emitted end,
\* and its audioBase64 encodes the chunks the stream emitted, each once, in
\* the order of their emission
C16_AudioAfterFullDrain ==
    \A r \in Slots :
        Done(r) /\ Status(r) = 200 /\ "audioBase64" \in BodyKeys(r) =>
            /\ reqs[r].stream.ended
            /\ reqs[r].res.body["audioBase64"] =
                   Base64(BufferConcat(reqs[r].stream.emitted))

\* a stream has emitted two different chunks and its audio has been sent
C16_Witness ==
    \E r \in Slots :
        /\ Done(r) /\ Status(r) = 200 /\ "audioBase64" \in BodyKeys(r)
        /\ Len(reqs[r].stream.emitted) >= 2
        /\ reqs[r].stream.emitted[1] = <<77>>
        /\ reqs[r].stream.emitted[2] = <<97, 110>>

\* the three causes of a synthesis failure
SynthesisThrew(r) ==
    \E i \in DOMAIN reqs[r].calls :
        reqs[r].calls[i].service = "elevenlabs" /\ reqs[r].calls[i].state = "threw"

NoStreamReturned(r) ==
    \E i \in DOMAIN reqs[r].calls :
        /\ reqs[r].calls[i].service = "elevenlabs"
        /\ reqs[r].calls[i].state = "returned" /\ reqs[r].calls[i].result = <<>>

DrainedNoData(r) ==
    /\ Done(r) /\ reqs[r].promise = "resolved"
    /\ BufferConcat(reqs[r].stream.emitted) = <<>>

\* C17: each of the three causes ends the request in a failure, never a 200,
\* and each has a diagnostic message of its own
C17_SynthesisFailuresDistinct ==
    \A r \in Slots :
        /\ SynthesisThrew(r) =>
               /\ Done(r) /\ Status(r) >= 500
               /\ reqs[r].caught = <<"Failed to generate audio: ">> \o UpstreamDetail
        /\ NoStreamReturned(r) =>
               /\ Done(r) /\ Status(r) >= 500
               /\ reqs[r].caught = <<"No valid audio stream received from ElevenLabs">>
        /\ DrainedNoData(r) =>
               /\ Status(r) >= 500
               /\ reqs[r].caught = <<"No audio data received from ElevenLabs">>

\* r and o are the same POST, r to the server and o to the serverless handler
Twins(r, o) ==
    /\ IsPost(r) /\ IsPost(o)
    /\ reqs[r].ep.shape = "server" /\ reqs[o].ep.shape = "serverless"
    /\ Route(r) = Route(o)
    /\ reqs[r].body = reqs[o].body

\* the arguments of a call
Arguments(c) == [service |-> c.service, op |-> c.op, model |-> c.model,
                 text |-> c.text, image |-> c.image]

\* the upstream services have behaved alike for the first n calls of r and o
SameUpstream(r, o, n) ==
    \A i \in 1..n :
        /\ i \in DOMAIN reqs[r].calls /\ i \in DOMAIN reqs[o].calls
        /\ reqs[r].calls[i].state = reqs[o].calls[i].state
        /\ reqs[r].calls[i].result = reqs[o].calls[i].result

\* C18: the server and the serverless handler of a route, given the same POST
\* body and the same upstream behaviour, make the same calls with the same
\* arguments and answer with the same status and body
C18_ShapesAgree ==
    \A r, o \in Slots :
        Twins(r, o) =>
            /\ \A i \in DOMAIN reqs[r].calls \cap DOMAIN reqs[o].calls :
                   SameUpstream(r, o, i - 1) =>
                       Arguments(reqs[r].calls[i]) = Arguments(reqs[o].calls[i])
            /\ /\ Done(r) /\ Done(o)
               /\ Len(reqs[r].calls) = Len(reqs[o].calls)
               /\ SameUpstream(r, o, Len(reqs[r].calls))
               /\ reqs[r].stream = reqs[o].stream
               => /\ Status(r) = Status(o)
                  /\ reqs[r].res.body = reqs[o].res.body

\* C19: the sanitizer's result is at most MaxLength characters long, and when
\* the cleaned text is longer the result is its first MaxLength characters
C19_AtMostMaxLength ==
    san.returned =>
        /\ Len(san.output) <= MaxLength
        /\ san.input.t = "string" /\ Len(Cleaned(san.input.s)) > MaxLength =>
               san.output = SubSeq(Cleaned(san.input.s), 1, MaxLength)

\* the sanitizer has returned for an argument whose cleaned text is one
\* character too long
C19_Witness ==
    /\ san.returned /\ san.input.t = "string"
    /\ Len(Cleaned(san.input.s)) = MaxLength + 1
    /\ Len(san.output) = MaxLength

\* C20: the sanitizer's result for a string holds none of the five characters
\* of its first replace
C20_NoDangerousChars ==
    san.returned /\ san.input.t = "string" =>
        Range(san.output) \cap DangerousChars = {}

\* the sanitizer has returned text for an argument that held all five
C20_Witness ==
    /\ san.returned /\ san.input.t = "string"
    /\ DangerousChars \subseteq Range(san.input.s)
    /\ san.output # <<>>

\* the argument of the sanitizer is a string of ASCII letters, digits and
\* whitespace
PlainArgument ==
    /\ san.input.t = "string"
    /\ Range(san.input.s) \subseteq
           Range(LowerSeq) \cup Range(UpperSeq) \cup Range(DigitSeq) \cup WhiteSpace

\* C21: on a string of ASCII letters, digits and whitespace, of any length,
\* the sanitizer applied to its own result returns that result
C21_IdempotentOnPlainText ==
    san.twice /\ PlainArgument => san.again = san.output

\* C22: the sanitizer's result for a string holds no line break, no whitespace
\* other than the space, and no two spaces in a row
C22_SingleSpaces ==
    san.returned /\ san.input.t = "string" =>
        /\ Range(san.output) \cap WhiteSpace \subseteq {" "}
        /\ \A i \in 1..(Len(san.output) - 1) :
               ~(san.output[i] = " " /\ san.output[i + 1] = " ")

\* the sanitizer has returned text with a space in it for an argument that
\* held a line break next to other whitespace
C22_Witness ==
    /\ san.returned /\ san.input.t = "string"
    /\ \E i \in 1..(Len(san.input.s) - 1) :
           san.input.s[i] \in WhiteSpace /\ san.input.s[i + 1] \in LineBreaks
    /\ " " \in Range(san.output)

\* C23: the sanitizer's result for a string, of any length, neither starts nor
\* ends with whitespace
C23_NoOuterWhiteSpace ==
    san.returned /\ san.input.t = "string" /\ san.output # <<>> =>
        /\ san.output[1] \notin WhiteSpace
        /\ san.output[Len(san.output)] \notin WhiteSpace

\* s holds the scheme javascript: in some letter case, or a handler pattern
HoldsScheme(s) == \E i \in 1..Len(s) : MatchesAt(s, i, JavascriptScheme)
HoldsHandler(s) == \E i \in 1..Len(s) : HandlerMatch(s, i) > 0

\* C24: the sanitizer's result for a string holds no javascript: in any letter
\* case and no on<word>= pattern
C24_NoSchemeNoHandler ==
    san.returned /\ san.input.t = "string" =>
        /\ ~HoldsScheme(san.output)
        /\ ~HoldsHandler(san.output)

\* C25: the sanitizer returns a string for every value, made of characters of
\* its argument and of spaces, and the empty string for a value that is
\* absent or no string
C25_Total ==
    san.returned =>
        /\ san.output \in Seq(Range(san.input.s) \cup {" "})
        /\ san.input.t # "string" => san.output = <<>>

\* the sanitizer has returned for null and for a value that is no string
C25_Witness ==
    san.returned /\ san.input \in {JNull, JNumber} /\ san.output = <<>>

\* C28: when the audio stream fails instead of ending, after any number of
\* chunks, the handler goes on to its catch and the request ends in a 500
\* without audioBase64
C28_StreamErrorIs500 ==
    \A r \in Slots :
        reqs[r].stream.errored /\ ~reqs[r].stream.ended =>
            IF Done(r)
            THEN Status(r) = 500 /\ "audioBase64" \notin BodyKeys(r)
            ELSE ENABLED ResumeAfterDrain(r)

\* a stream has failed after a chunk of data and the request is answered
C28_Witness ==
    \E r \in Slots :
        /\ reqs[r].stream.errored /\ ~reqs[r].stream.ended
        /\ BufferConcat(reqs[r].chunks) # <<>>
        /\ Done(r) /\ Status(r) = 500

\* C29: on /api/generate-voice every call is a synthesis call made with the
\* sanitizer's result for the trimmed text of the body, which is not empty,
\* at most MaxLength long and free of the characters the sanitizer removes
C29_VoiceTextSanitized ==
    \A r \in Slots :
        Arrived(r) /\ Route(r) = "/api/generate-voice" =>
            \A i \in DOMAIN reqs[r].calls :
                LET c == reqs[r].calls[i]
                IN  /\ c.service = "elevenlabs"
                    /\ c.text = sanitizeInput(JString(TrimmedOrEmpty(reqs[r].body.text)))
                    /\ c.text # <<>> /\ Len(c.text) <= MaxLength
                    /\ Range(c.text) \cap DangerousChars = {}

\* the synthesis call is made for a text the sanitizer has changed
C29_Witness ==
    \E r \in Slots :
        /\ Route(r) = "/api/generate-voice" /\ Len(reqs[r].calls) = 1
        /\ reqs[r].body.text = JString(<<" ", "a", "<">>)
        /\ reqs[r].calls[1].text = <<"a">>

\* the fetches in flight that the given handlers have started
InFlight(handlers) == {i \in DOMAIN ui.fetches : ui.fetches[i].handler \in handlers}

\* StoryPlayer is rendered
PlayerShown == ui.audioData.t = "object" /\ Truthy(ui.processedStory)

\* C26: when a fetch of the frontend has settled with a response of status
\* 429, the alert it raised holds the message about high demand, whatever the
\* body and the content type of the response.
C26_RateLimitMessage ==
    ui.settled.status = 429 => Includes(ui.settled.alert, HighDemand[1])

\* C27: whenever StoryPlayer is rendered, the audio it is given is the one
\* the server synthesized from the story it shows.
C27_AudioOfShownStory ==
    PlayerShown => ui.audioData.audioBase64 = JString(AudioOf(ui.processedStory.s))

\* C30: at most one fetch of each handler is in flight, and a loading flag is
\* set exactly while a fetch of its handlers is in flight: a fetch that has
\* settled, with a result or with any failure, has left its flag reset.
C30_FlagsFollowFetches ==
    /\ \A h \in {"handleImageExtraction", "handleTextProcessing", "handleGenerateVoice"} :
          Cardinality(InFlight({h})) <= 1
    /\ ui.loadingExtract <=>
          InFlight({"handleImageExtraction", "handleTextProcessing"}) # {}
    /\ ui.loadingVoice <=> InFlight({"handleGenerateVoice"}) # {}

\* a fetch of handleGenerateVoice has settled with a 429 and an alert, and a
\* fetch of the extract button is in flight
C30_Witness ==
    /\ ui.settled.handler = "handleGenerateVoice"
    /\ ui.settled.status = 429 /\ ui.settled.alert # <<>>
    /\ ~ui.loadingVoice /\ ui.loadingExtract

=============================================================================
